---- MODULE Spec2Model ----
(***************************************************************************)
(* Model of the incremental crawl engine of fetch_8891_csv.py: main() and  *)
(* run() with the page loop of one task, the item-extraction paths, the    *)
(* dedup ledger (existing_ids), the batch (rows_to_append) and the CSV     *)
(* partition stores (ensure_csv / load_existing_ids / append_rows).        *)
(***************************************************************************)
EXTENDS Integers, Sequences, FiniteSets, TLC

(* ------------------------------ bounds --------------------------------- *)
\* largest integer listing identifier the upstream hands out
MaxId == 2
\* largest number of records on one upstream page
MaxItems == 2
\* largest page budget (task.pages, --pages, --max-pages)
MaxPages == 3
\* largest number of task entries in the configuration file
MaxTasks == 2
\* number of times the program is started on the same out-dir
MaxRuns == 2
\* longest text handed to a parser, besides the sample texts
MaxText == 5

(* ------------------------- text as characters -------------------------- *)
\* Texts are sequences of one-character strings; <<>> is the empty text.
DigitChars == <<"0", "1", "2", "3", "4", "5", "6", "7", "8", "9">>

IsDigit(c) == \E i \in 1..10 : DigitChars[i] = c

DigitVal(c) == (CHOOSE i \in 1..10 : DigitChars[i] = c) - 1

\* str(n) of a non-negative Python int
RECURSIVE Digits(_)
Digits(n) == IF n < 10 THEN <<DigitChars[n + 1]>>
             ELSE Digits(n \div 10) \o <<DigitChars[(n % 10) + 1]>>

RECURSIVE DigitsValue(_)
DigitsValue(s) == IF s = <<>> THEN 0
                  ELSE 10 * DigitsValue(SubSeq(s, 1, Len(s) - 1)) + DigitVal(s[Len(s)])

\* str.lower() on the letters the configuration uses
LowerChar(c) == IF c = "T" THEN "t" ELSE IF c = "C" THEN "c" ELSE c

Lower(s) == [i \in 1..Len(s) |-> LowerChar(s[i])]

(* ------------------------- raw item identifiers ------------------------ *)
\* The JSON value under "itemId": an integer n, the float n + f/10, or null
\* (also standing for a missing key: it.get("itemId") is None in both cases).
IntId(n) == [k |-> "int", n |-> n, f |-> 0]
FloatId(n, f) == [k |-> "float", n |-> n, f |-> f]
NullId == [k |-> "null", n |-> 0, f |-> 0]

RawIds == {IntId(n) : n \in 1..MaxId} \cup {FloatId(1, 5), NullId}

\* int(it.get("itemId")) inside try/except: ok = FALSE is item_id = None
PyInt(v) == IF v.k = "int" THEN [ok |-> TRUE, v |-> v.n]
            ELSE IF v.k = "float" THEN [ok |-> TRUE, v |-> v.n]
            ELSE [ok |-> FALSE, v |-> 0]

\* the text csv.DictWriter writes for a cell value: str(value), "" for None
CsvCell(v) == IF v.k = "int" THEN Digits(v.n)
              ELSE IF v.k = "float" THEN Digits(v.n) \o <<".">> \o Digits(v.f)
              ELSE <<>>

\* int(row["item_id"]) on a cell text inside try/except
ParseInt(s) == IF s # <<>> /\ \A i \in 1..Len(s) : IsDigit(s[i])
               THEN [ok |-> TRUE, v |-> DigitsValue(s)]
               ELSE [ok |-> FALSE, v |-> 0]

(* ------------------------------- parsers ------------------------------- *)
\* The characters outside ASCII are written by their code points: U+842C is
\* the myriad marker, U+516C U+91CC the two characters of the kilometre
\* suffix.
Wan == "U+842C"
Gong == "U+516C"
Li == "U+91CC"

\* JSON values of a record: None (null or a missing key), a string, an
\* integer or a float
None == NullId
Str(t) == [k |-> "str", s |-> t]
IntVal(n) == IntId(n)

\* an exception that leaves the function
Raised(e) == [k |-> "raise", exc |-> e]

IsRaised(x) == "k" \in DOMAIN x /\ x.k = "raise"

\* str(v)
PyStr(v) == IF v.k = "str" THEN v.s ELSE CsvCell(v)

\* `not v` for a JSON value
Falsy(v) == v = None \/ v = Str(<<>>) \/ (v.k = "int" /\ v.n = 0)

\* s.strip()
RECURSIVE LStrip(_)
LStrip(s) == IF s # <<>> /\ Head(s) = " " THEN LStrip(Tail(s)) ELSE s

RECURSIVE RStrip(_)
RStrip(s) == IF s # <<>> /\ s[Len(s)] = " " THEN RStrip(SubSeq(s, 1, Len(s) - 1)) ELSE s

Strip(s) == RStrip(LStrip(s))

\* s.replace(c, '') for a single character c
Remove(s, c) == SelectSeq(s, LAMBDA x : x # c)

\* s.replace(ab, '') for a two-character text ab: the occurrences are found
\* from the left and do not overlap
RECURSIVE RemovePair(_, _, _)
RemovePair(s, a, b) ==
    IF Len(s) < 2 THEN s
    ELSE IF s[1] = a /\ s[2] = b THEN RemovePair(SubSeq(s, 3, Len(s)), a, b)
    ELSE <<s[1]>> \o RemovePair(Tail(s), a, b)

Contains(s, c) == \E i \in 1..Len(s) : s[i] = c

RECURSIVE Pow10(_)
Pow10(e) == IF e = 0 THEN 1 ELSE 10 * Pow10(e - 1)

\* float(t) on texts of digits, ".", blanks and letters shorter than the 309
\* digits at which a decimal literal overflows: a decimal literal is
\* mant / 10^frac, "inf" is infinity, "nan" is not-a-number, anything else is
\* a ValueError.  Signs, exponents and underscores are not in the alphabet.
IsDecimal(u) ==
    /\ \A i \in 1..Len(u) : IsDigit(u[i]) \/ u[i] = "."
    /\ \E i \in 1..Len(u) : IsDigit(u[i])
    /\ \A i, j \in 1..Len(u) : (u[i] = "." /\ u[j] = ".") => i = j

PyFloat(t) ==
    LET w == Strip(t)
        signed == w # <<>> /\ Head(w) \in {"-", "+"}
        neg == signed /\ Head(w) = "-"
        u == IF signed THEN Tail(w) ELSE w
    IN  IF u = <<"i", "n", "f">> THEN [k |-> "inf", mant |-> 0, frac |-> 0, neg |-> neg]
        ELSE IF u = <<"n", "a", "n">> THEN [k |-> "nan", mant |-> 0, frac |-> 0, neg |-> neg]
        ELSE IF IsDecimal(u)
             THEN LET dot == IF Contains(u, ".") THEN CHOOSE i \in 1..Len(u) : u[i] = "."
                             ELSE Len(u) + 1
                  IN  [k |-> "num", mant |-> DigitsValue(Remove(u, ".")),
                       frac |-> IF dot <= Len(u) THEN Len(u) - dot ELSE 0, neg |-> neg]
        ELSE [k |-> "error", mant |-> 0, frac |-> 0, neg |-> FALSE]

\* round(|x| * 10000) of a finite x: to the nearest integer, a tie to the even
\* one (round is symmetric about zero: round(-y) = -round(y)). The product is
\* computed in decimal, which is what the binary product rounds to for the
\* texts of up to MaxText characters and the sample texts.
RoundMyriad(x) ==
    LET num == x.mant * 10000
        den == Pow10(x.frac)
        q == num \div den
        r == num % den
    IN  IF 2 * r < den THEN q
        ELSE IF 2 * r > den THEN q + 1
        ELSE IF q % 2 = 0 THEN q ELSE q + 1

\* int(round(float(t) * 10000)) with `except ValueError: return None`
MyriadValue(t) ==
    LET x == PyFloat(t)
    IN  IF x.k = "error" THEN None
        ELSE IF x.k = "nan" THEN None
        ELSE IF x.k = "inf" THEN Raised("OverflowError")
        ELSE IntVal(IF x.neg THEN 0 - RoundMyriad(x) ELSE RoundMyriad(x))

\* re.findall(r'[\d.]+', s)[0], <<>> when the list is empty
IsTokenChar(c) == IsDigit(c) \/ c = "."

RECURSIVE TakeToken(_)
TakeToken(s) == IF s # <<>> /\ IsTokenChar(Head(s)) THEN <<Head(s)>> \o TakeToken(Tail(s))
                ELSE <<>>

RECURSIVE FirstToken(_)
FirstToken(s) == IF s = <<>> THEN <<>>
                 ELSE IF IsTokenChar(Head(s)) THEN TakeToken(s)
                 ELSE FirstToken(Tail(s))

\* int(float(m[0])) if m else None, with `except ValueError: return None`
TokenValue(s) ==
    LET m == FirstToken(s)
        x == PyFloat(m)
    IN  IF m = <<>> THEN None
        ELSE IF x.k = "num" THEN IntVal(x.mant \div Pow10(x.frac))
        ELSE None

parse_price_to_ntd(price_str) ==
    IF price_str = None THEN None
    ELSE LET s == Remove(Strip(PyStr(price_str)), ",")
         IN  IF s = <<>> THEN None
             ELSE IF Contains(s, Wan) THEN MyriadValue(Remove(s, Wan))
             ELSE TokenValue(s)

\* .replace(kilometre suffix, '').replace('KM', '').replace('km', '')
RemoveUnits(s) == RemovePair(RemovePair(RemovePair(s, Gong, Li), "K", "M"), "k", "m")

\* (variant: the myriad branch is missing)
parse_mileage_to_km_plain(mileage_str) ==
    IF mileage_str = None THEN None
    ELSE LET s == RemoveUnits(Remove(Strip(PyStr(mileage_str)), ","))
         IN  IF s = <<>> THEN None
             ELSE TokenValue(s)

parse_mileage_to_km(mileage_str) ==
    IF mileage_str = None THEN None
    ELSE LET s == RemoveUnits(Remove(Strip(PyStr(mileage_str)), ","))
         IN  IF s = <<>> THEN None
             ELSE IF Contains(s, Wan) THEN MyriadValue(Remove(s, Wan))
             ELSE TokenValue(s)

\* re.search(r'(19|20)\d{2}', s): the positions at which a match starts
YearAt(s, i) ==
    /\ i + 3 <= Len(s)
    /\ (s[i] = "1" /\ s[i + 1] = "9") \/ (s[i] = "2" /\ s[i + 1] = "0")
    /\ IsDigit(s[i + 2]) /\ IsDigit(s[i + 3])

\* (variant: the values are searched from the last to the first)
RECURSIVE parse_year_reversed(_)
parse_year_reversed(values) ==
    IF values = <<>> THEN None
    ELSE LET v == values[Len(values)]
             s == PyStr(v)
             rest == SubSeq(values, 1, Len(values) - 1)
         IN  IF Falsy(v) THEN parse_year_reversed(rest)
             ELSE IF \E i \in 1..Len(s) : YearAt(s, i)
                  THEN LET i == CHOOSE j \in 1..Len(s) :
                                    YearAt(s, j) /\ \A h \in 1..(j - 1) : ~YearAt(s, h)
                       IN  IntVal(DigitsValue(SubSeq(s, i, i + 3)))
             ELSE parse_year_reversed(rest)

\* for v in values: skip a falsy v, return the first match in str(v)
RECURSIVE parse_year(_)
parse_year(values) ==
    IF values = <<>> THEN None
    ELSE LET v == Head(values)
             s == PyStr(v)
         IN  IF Falsy(v) THEN parse_year(Tail(values))
             ELSE IF \E i \in 1..Len(s) : YearAt(s, i)
                  THEN LET i == CHOOSE j \in 1..Len(s) :
                                    YearAt(s, j) /\ \A h \in 1..(j - 1) : ~YearAt(s, h)
                       IN  IntVal(DigitsValue(SubSeq(s, i, i + 3)))
             ELSE parse_year(Tail(values))

\* ' '.join(text.split()): runs of blanks become one blank, none at the ends
RECURSIVE SquashBlanks(_)
SquashBlanks(s) ==
    IF Len(s) < 2 THEN s
    ELSE IF s[1] = " " /\ s[2] = " " THEN SquashBlanks(Tail(s))
    ELSE <<s[1]>> \o SquashBlanks(Tail(s))

\* clean_text on texts without replacement characters, "?" or NUL: every
\* failure inside is caught, the result is the text with its blanks normalised
clean_text(text) == IF text = None THEN <<>> ELSE Strip(SquashBlanks(PyStr(text)))

(* ------------------------------ records -------------------------------- *)
\* a record of the crawl carries the key the ledger depends on; the other
\* keys normalize_item reads are missing from it
RawRecords == {[itemId |-> v] : v \in RawIds}

\* r.get(key)
Get(r, key) == IF key \in DOMAIN r THEN r[key] ELSE None

\* the canonical record with its identifier, its three parsed columns and one
\* of its cleaned text columns; an exception of a parser leaves normalize_item
normalize_item(r) ==
    LET year == parse_year(<<Get(r, "makeYear"), Get(r, "yearType")>>)
        price_ntd == parse_price_to_ntd(Get(r, "price"))
        mileage_km == parse_mileage_to_km(Get(r, "mileage"))
    IN  IF IsRaised(price_ntd) THEN price_ntd
        ELSE IF IsRaised(mileage_km) THEN mileage_km
        ELSE [item_id |-> Get(r, "itemId"), year |-> year, mileage_km |-> mileage_km,
              price_ntd |-> price_ntd, title |-> clean_text(Get(r, "title"))]

RECURSIVE SeqsUpTo(_, _)
SeqsUpTo(S, n) == IF n = 0 THEN {<<>>}
                  ELSE LET shorter == SeqsUpTo(S, n - 1)
                       IN  shorter \cup {Append(s, x) : s \in {t \in shorter : Len(t) = n - 1}, x \in S}

ItemLists == SeqsUpTo(RawRecords, MaxItems)

(* --------------------------- parser arguments -------------------------- *)
Alphabet == {"1", "5", ".", ",", " ", "K", "M", Wan}

Texts == SeqsUpTo(Alphabet, MaxText)

\* "11.5<U+842C>", "123,456 KM", "12 km", "1<U+842C><U+516C><U+91CC>",
\* "inf<U+842C>", "nan<U+842C>", "0", "0<U+842C>", "-5", "-5<U+842C>", "-12 km"
SampleTexts == { <<"0">>, <<"0", Wan>>, <<"-", "5">>, <<"-", "5", Wan>>,
                 <<"-", "1", "2", " ", "k", "m">>,
                 <<"1", "1", ".", "5", Wan>>,
                 <<"1", "2", "3", ",", "4", "5", "6", " ", "K", "M">>,
                 <<"1", "2", " ", "k", "m">>,
                 <<"1", Wan, Gong, Li>>,
                 <<"i", "n", "f", Wan>>,
                 <<"n", "a", "n", Wan>> }

\* what r.get("price") and r.get("mileage") may be
NumberInputs == {None, IntVal(2), FloatId(1, 5)} \cup {Str(t) : t \in Texts \cup SampleTexts}

YearTexts == SeqsUpTo({"1", "9", "2", "0"}, MaxText)

\* what r.get("makeYear") and r.get("yearType") may be
MakeYears == {None, IntVal(0), IntVal(2015)} \cup {Str(t) : t \in YearTexts}
YearTypes == {None, Str(<<>>), Str(<<"1", "9">>), Str(<<"x", "2", "0", "0", "1">>)}

\* raw records with the keys normalize_item reads, and the records of the crawl
NormRecords ==
    [itemId : {IntVal(1), None},
     price : {None, IntVal(2), Str(<<"1", "1", ".", "5", Wan>>), Str(<<"x">>),
              Str(<<"i", "n", "f", Wan>>), Str(<<"0">>), Str(<<"-", "5", Wan>>)},
     mileage : {None, Str(<<"1", "2", "3", ",", "4", "5", "6", " ", "K", "M">>), Str(<<"K", "M">>),
                Str(<<"i", "n", "f", Wan>>), Str(<<"0">>), Str(<<"-", "5", Wan>>)},
     makeYear : {None, Str(<<"2", "0", "1", "5">>), Str(<<"x">>)},
     yearType : {None, Str(<<"1", "9", "9", "9">>), Str(<<"x">>)},
     title : {None, Str(<<" ", "K", " ", " ", "M">>)}]
    \cup RawRecords

\* the records of a page given to the item loop: identifiers that are new,
\* repeated, fractional or missing, with fields that parse, do not parse, or
\* make the parser raise
FieldRecords ==
    [itemId : {IntVal(1), IntVal(2), FloatId(1, 5), None},
     price : {None, Str(<<"x">>), Str(<<"1", "1", ".", "5", Wan>>), Str(<<"i", "n", "f", Wan>>)},
     mileage : {None, Str(<<"x">>)},
     makeYear : {None, Str(<<"x">>)}]

FieldPages == SeqsUpTo(FieldRecords, MaxItems)

Ledgers == SUBSET (1..MaxId)

(* ---------------------------- response bodies -------------------------- *)
\* A parsed JSON body: a list, a mapping (a function from keys to bodies)
\* or a scalar.
JList(l) == [t |-> "list", l |-> l, d |-> <<>>]
JDict(d) == [t |-> "dict", l |-> <<>>, d |-> d]
JScalar == [t |-> "scalar", l |-> <<>>, d |-> <<>>]

HasList(d, key) == key \in DOMAIN d /\ d[key].t = "list"

\* (variant: the loop has no break, the last key with a list wins)
FirstListLast(d, keys) ==
    IF \E i \in 1..Len(keys) : HasList(d, keys[i])
    THEN LET i == CHOOSE j \in 1..Len(keys) :
                      HasList(d, keys[j]) /\ \A h \in (j + 1)..Len(keys) : ~HasList(d, keys[h])
         IN  [found |-> TRUE, items |-> d[keys[i]].l]
    ELSE [found |-> FALSE, items |-> <<>>]

\* for key in keys: if key in d and isinstance(d[key], list): items = d[key]; break
FirstList(d, keys) ==
    IF \E i \in 1..Len(keys) : HasList(d, keys[i])
    THEN LET i == CHOOSE j \in 1..Len(keys) :
                      HasList(d, keys[j]) /\ \A h \in 1..(j - 1) : ~HasList(d, keys[h])
         IN  [found |-> TRUE, items |-> d[keys[i]].l]
    ELSE [found |-> FALSE, items |-> <<>>]

\* (variant: "items" is not among the keys tried inside data)
NestedKeysNoItems == <<"list", "results", "listings">>

NestedKeys == <<"items", "list", "results", "listings">>
TopKeys == <<"items", "list", "data", "results", "listings">>

\* the extraction of run(): found = FALSE is items = None
ExtractItems(data) ==
    IF data.t = "dict"
    THEN LET nested == IF "data" \in DOMAIN data.d /\ data.d["data"].t = "dict"
                       THEN FirstList(data.d["data"].d, NestedKeys)
                       ELSE [found |-> FALSE, items |-> <<>>]
         IN  IF nested.found THEN nested ELSE FirstList(data.d, TopKeys)
    ELSE IF data.t = "list" THEN [found |-> TRUE, items |-> data.l]
    ELSE [found |-> FALSE, items |-> <<>>]

\* (variant: only None ends the loop, an empty list is processed)
NoItemsOnlyNone(ex) == ~ex.found

\* `if not items`: None or an empty list
NoItems(ex) == ~ex.found \/ ex.items = <<>>

\* the envelopes the upstream may use around a record list
Envelopes(l) == { JList(l),
                  JDict([items |-> JList(l)]),
                  JDict([list |-> JList(l)]),
                  JDict([data |-> JDict([items |-> JList(l)])]),
                  JDict([data |-> JList(l)]) }

\* bodies in which no list is found by any path
NoListBodies == { JDict(<<>>), JDict([data |-> JDict(<<>>)]), JScalar }

Bodies == (UNION {Envelopes(l) : l \in ItemLists}) \cup NoListBodies

\* bodies with several keys: mappings with up to two of the given keys, each
\* holding a short list or a scalar, at the top level and under "data"
ProbeValues == {JList(l) : l \in SeqsUpTo({[itemId |-> IntId(n)] : n \in 1..MaxId}, 1)}
               \cup {JScalar}

Mappings(keys) ==
    UNION {[K -> ProbeValues] : K \in {S \in SUBSET keys : Cardinality(S) <= 2}}

ProbeBodies ==
    {JDict(d) : d \in Mappings({"items", "list", "data", "results", "listings"})}
    \cup {JDict(d @@ ("data" :> JDict(n))) :
             d \in {m \in Mappings({"items", "list", "results", "listings"}) :
                        Cardinality(DOMAIN m) <= 1},
             n \in Mappings({"items", "list", "results", "listings"})}

\* what fetch_page does: raise (transport error, non-2xx, invalid JSON) or
\* return the parsed body
Failure == [ok |-> FALSE, body |-> JScalar]
Success(b) == [ok |-> TRUE, body |-> b]

Responses == {Failure} \cup {Success(b) : b \in Bodies}

(* ---------------------------- configuration ---------------------------- *)
\* Optional[str] brand / kind: <<>> stands for None and for "", which the code
\* treats alike (`if t.brand`, `if brand`).
Brands == {<<>>, <<"T">>}
Kinds == {<<>>}

\* argparse default of --pages
NonePages == -1

\* argparse default of --max-pages
DefaultMaxPages == 200

PageCounts == 1..MaxPages

\* Task.pages when the entry and defaults.pages give none
DefaultPages == 3

\* "pages" of a configuration entry
TaskPages == {DefaultPages}

Task == [brand : Brands, kind : Kinds, enabled : BOOLEAN, pages : TaskPages]

Configs == SeqsUpTo(Task, MaxTasks)

\* enabled configuration entries with a brand, a kind, both or neither
KindTask == [brand : Brands, kind : {<<>>, <<"T">>}, enabled : {TRUE}, pages : TaskPages]

KindConfigs == SeqsUpTo(KindTask, MaxTasks)

\* configuration entries by brand and kind
PartitionTasks ==
    [brand : {<<>>, <<"T">>, <<"t">>, <<"T", "_", "C">>}, kind : {<<>>, <<"T">>, <<"C">>},
     enabled : {TRUE}, pages : {DefaultPages}]

\* the command lines: --pages p [--auto] | --auto --max-pages m
\* [--no-stop-on-unchanged] | none of these
CommandLines(raw) ==
    [pages : PageCounts, auto : BOOLEAN, max_pages : {DefaultMaxPages},
     no_stop_on_unchanged : {FALSE}, raw_jsonl : raw]
    \cup [pages : {NonePages}, auto : {TRUE}, max_pages : PageCounts,
          no_stop_on_unchanged : BOOLEAN, raw_jsonl : raw]
    \cup [pages : {NonePages}, auto : {FALSE}, max_pages : {DefaultMaxPages},
          no_stop_on_unchanged : {FALSE}, raw_jsonl : raw]

\* without --raw-jsonl
ArgSets == CommandLines({FALSE})

\* with --raw-jsonl
RawArgSets == CommandLines({TRUE})

\* The upstream service.  A volatile upstream may answer any request with any
\* response; a stable one holds one dataset for the whole behaviour and
\* answers page 1 of every query with `first` and later pages with `rest`.
Volatile == [stable |-> FALSE, first |-> Failure, rest |-> Failure]

StableResponses == {Failure} \cup {Success(JList(l)) : l \in SeqsUpTo(RawRecords, 1)}

Datasets == [stable : {TRUE}, first : StableResponses, rest : StableResponses]

\* datasets whose pages hold up to MaxItems records
RawResponses == {Failure} \cup {Success(JList(l)) : l \in ItemLists}

RawDatasets == [stable : {TRUE}, first : RawResponses, rest : RawResponses]

VARIABLES tasks, auto, stop_on_unchanged, max_pages, upstream, store, run_no, pc, ti,
          existing_ids, rows_to_append, page, fetched_pages, new_rows_this_page,
          total_new, requested, last_call, stop, seen_ids, last_items, last_dups,
          args, raw_jsonl, raw, store_before, call,
          drill_down_filters, current_level, breadcrumb

vars == <<tasks, auto, stop_on_unchanged, max_pages, upstream, store, run_no, pc, ti,
          existing_ids, rows_to_append, page, fetched_pages, new_rows_this_page,
          total_new, requested, last_call, stop, seen_ids, last_items, last_dups,
          args, raw_jsonl, raw, store_before, call,
          drill_down_filters, current_level, breadcrumb>>

\* st.session_state of the dashboard: `drill_down_filters` is the dict as the
\* sequence of its (key, value) entries in insertion order
dash == <<drill_down_filters, current_level, breadcrumb>>

\* observers, not read by the program: `requested` lists the page numbers the
\* current task passed to fetch_page, `last_call` is the later of fetch_page
\* and time.sleep, `stop` names the break that ended the latest page loop,
\* `seen_ids` holds the integer identifiers of the records on the pages the
\* current task extracted, `last_items` is the number of records the latest
\* fetch yielded (NoBody when fetch_page raised), `last_dups` is how many of
\* them carried an identifier that was in the ledger when they were reached,
\* `store_before` is the out-dir as it was when the current task started,
\* `call` is the latest direct call of one of the helper functions
NoBody == -1

\* `args` is the parsed command line; `raw` holds, per partition, the lines of
\* the .jsonl file of the raw archive (one file per partition and day; a
\* behaviour stays within one day)
params == <<tasks, auto, stop_on_unchanged, max_pages, upstream, run_no, args, raw_jsonl>>

(* ------------------------------- main() -------------------------------- *)
\* (variant: --pages does not disable --auto)
AutoModeIgnoringPages(a) == a.auto

\* auto = bool(args.auto and args.pages is None)
AutoMode(a) == a.auto /\ a.pages = NonePages

\* stop_on_unchanged = not args.no_stop_on_unchanged
StopOnUnchanged(a) == ~a.no_stop_on_unchanged

\* tasks = [t for t in tasks if t.enabled], then t.pages = pages when given
EnabledTasks(cfg, a) ==
    LET en == SelectSeq(cfg, LAMBDA t : t.enabled)
    IN  [i \in 1..Len(en) |->
            IF a.pages # NonePages THEN [en[i] EXCEPT !.pages = a.pages] ELSE en[i]]

(* ----------------------------- partition ------------------------------- *)
\* brand = t.brand.lower() if t.brand else None   (and the same for kind)
TaskBrand(t) == IF t.brand # <<>> THEN Lower(t.brand) ELSE <<>>
TaskKind(t) == IF t.kind # <<>> THEN Lower(t.kind) ELSE <<>>

\* "_".join(filename_parts) + ".csv"
csv_filename(t) ==
    LET b == TaskBrand(t)
        k == TaskKind(t)
        stem == IF b # <<>> /\ k # <<>> THEN b \o <<"_">> \o k
                ELSE IF b # <<>> THEN b
                ELSE IF k # <<>> THEN k
                ELSE <<"general">>
    IN  stem \o <<".csv">>

Files == {csv_filename(t) : t \in Task \cup KindTask}

\* csv_path of the task the for loop is at
csv_path == csv_filename(tasks[ti])

\* build_url: the request is determined by page, brand and kind
build_url(p, t) == [page |-> p, brand |-> TaskBrand(t), kind |-> TaskKind(t)]

\* the responses fetch_page may produce for a request
Upstream(url) == IF upstream.stable
                 THEN {IF url.page = 1 THEN upstream.first ELSE upstream.rest}
                 ELSE Responses

(* ------------------------------- CSV IO -------------------------------- *)
NoFile == [exists |-> FALSE, rows |-> <<>>]

\* (variant: the file is opened for writing whether it exists or not)
ensure_csv_truncating(st, path) == [st EXCEPT ![path] = [exists |-> TRUE, rows |-> <<>>]]

\* creates the file with its header row when it does not exist
ensure_csv(st, path) == IF st[path].exists THEN st
                        ELSE [st EXCEPT ![path] = [exists |-> TRUE, rows |-> <<>>]]

load_existing_ids(st, path) ==
    IF ~st[path].exists THEN {}
    ELSE {ParseInt(st[path].rows[i].item_id).v :
             i \in {j \in 1..Len(st[path].rows) : ParseInt(st[path].rows[j].item_id).ok}}

\* one CSV line per row, each value written as csv.DictWriter writes it
append_rows(st, path, rows) ==
    [st EXCEPT ![path].rows = @ \o [i \in 1..Len(rows) |-> [item_id |-> CsvCell(rows[i].item_id)]]]

(* ----------------------------- page loop ------------------------------- *)
\* (variant: the test is page >= t.pages)
FixedDoneEarly(p, budget) == ~auto /\ p >= budget

\* (variant: the test is page > t.pages + 1)
FixedDoneLate(p, budget) == ~auto /\ p > budget + 1

\* if not auto and page > t.pages: break
FixedDone(p, budget) == ~auto /\ p > budget

\* (variant: the test is fetched_pages > max_pages)
CapReachedLate(n) == auto /\ n > max_pages

\* if auto and fetched_pages >= max_pages: break
CapReached(n) == auto /\ n >= max_pages

\* (variant: the ledger is not consulted)
SkippedNoLedger(id, ids) == ~id.ok

\* if item_id is None or item_id in existing_ids: continue
Skipped(id, ids) == ~id.ok \/ id.v \in ids

\* for it in items: ... rows_to_append.append(norm); existing_ids.add(item_id);
\* normalize_item is called outside any try, so what it raises leaves the loop
RECURSIVE Collect(_, _, _)
\* rows_to_append.append(norm); existing_ids.add(item_id), then the rest of
\* the page, unless normalize_item raised
Accept(norm, item_id, rest, ids, rows) ==
    IF IsRaised(norm) THEN norm
    ELSE Collect(rest, ids \cup {item_id}, Append(rows, norm))

Collect(items, ids, rows) ==
    IF items = <<>> THEN [ids |-> ids, rows |-> rows]
    ELSE LET it == Head(items)
             item_id == PyInt(it.itemId)
         IN  IF Skipped(item_id, ids) THEN Collect(Tail(items), ids, rows)
             ELSE Accept(normalize_item(it), item_id.v, Tail(items), ids, rows)

\* the number of records of a page whose identifier is in the ledger when the
\* loop reaches them (the ledger being extended by every identifier passed)
RECURSIVE Known(_, _)
Known(items, ids) ==
    IF items = <<>> THEN 0
    ELSE LET id == PyInt(Head(items).itemId)
         IN  IF id.ok
             THEN (IF id.v \in ids THEN 1 ELSE 0) + Known(Tail(items), ids \cup {id.v})
             ELSE Known(Tail(items), ids)

\* (variant: the test is new_rows_this_page < 0)
UnchangedStopNegative(new) == auto /\ stop_on_unchanged /\ new < 0

\* if auto and stop_on_unchanged and new_rows_this_page == 0: break
UnchangedStop(new) == auto /\ stop_on_unchanged /\ new = 0

\* (variant: the archive line is written after the dedup test, for the
\* records that pass it)
RECURSIVE raw_lines_accepted(_, _)
raw_lines_accepted(items, ids) ==
    IF items = <<>> THEN <<>>
    ELSE LET id == PyInt(Head(items).itemId)
         IN  IF Skipped(id, ids) THEN raw_lines_accepted(Tail(items), ids)
             ELSE <<Head(items)>> \o raw_lines_accepted(Tail(items), ids \cup {id.v})

\* raw_fp.write(json.dumps(it) + "\n") for every `it` of the page, before the
\* dedup test: one line per record, in the order of the page
raw_lines(items, ids) == items

\* no helper has been called
NoCall == [fn |-> "none"]

(* ------------------------------ dashboard ------------------------------ *)
\* the first entry of the breadcrumb, the two characters U+7E3D U+89BD
Overview == <<"U+7E3D", "U+89BD">>

\* the columns and the values a drill-down may name
FilterTypes == {"brand", "series"}
FilterValues == {"A", "B"}

\* f"{selected_column}: {selected_value}"
LevelName(filter_type, filter_value) == <<filter_type, ": ", filter_value>>

\* list(d.keys()), key in d, d[key] = value (an existing key keeps its place),
\* del d[key]
Keys(d) == [i \in 1..Len(d) |-> d[i].key]
HasKey(d, key) == \E i \in 1..Len(d) : d[i].key = key
DictSet(d, key, value) ==
    IF HasKey(d, key)
    THEN [i \in 1..Len(d) |-> IF d[i].key = key THEN [key |-> key, value |-> value] ELSE d[i]]
    ELSE Append(d, [key |-> key, value |-> value])
DictDel(d, key) == SelectSeq(d, LAMBDA entry : entry.key # key)

\* the state before main() is called, on an empty out-dir, and the session
\* state of a new dashboard session
Idle ==
    /\ tasks = <<>>
    /\ auto = FALSE
    /\ stop_on_unchanged = TRUE
    /\ max_pages = DefaultMaxPages
    /\ store = [f \in Files |-> NoFile]
    /\ run_no = 1
    /\ pc = "idle"
    /\ ti = 1
    /\ existing_ids = {}
    /\ rows_to_append = <<>>
    /\ page = 1
    /\ fetched_pages = 0
    /\ new_rows_this_page = 0
    /\ total_new = 0
    /\ requested = <<>>
    /\ last_call = "none"
    /\ stop = "none"
    /\ seen_ids = {}
    /\ last_items = 0
    /\ last_dups = 0
    /\ raw_jsonl = FALSE
    /\ raw = [f \in Files |-> <<>>]
    /\ store_before = store
    /\ call = NoCall
    /\ drill_down_filters = <<>>
    /\ current_level = "overview"
    /\ breadcrumb = <<Overview>>

Init == Idle /\ upstream = Volatile /\ args \in ArgSets

InitRerun == Idle /\ upstream \in Datasets /\ args \in ArgSets

\* main() parses the command line and calls run(), which loads the
\* configuration, keeps the enabled tasks and starts with total_new = 0
Main ==
    /\ pc = "idle"
    /\ \E cfg \in Configs : tasks' = EnabledTasks(cfg, args)
    /\ auto' = AutoMode(args)
    /\ stop_on_unchanged' = StopOnUnchanged(args)
    /\ max_pages' = args.max_pages
    /\ raw_jsonl' = args.raw_jsonl
    /\ pc' = "for"
    /\ ti' = 1
    /\ total_new' = 0
    /\ UNCHANGED <<upstream, store, run_no, existing_ids, rows_to_append, page,
                   fetched_pages, new_rows_this_page, requested, last_call, stop,
                   seen_ids, last_items, last_dups, args, raw, store_before, call, dash>>

\* main() on a configuration whose entries may give a kind
MainKinds ==
    /\ pc = "idle"
    /\ \E cfg \in KindConfigs : tasks' = EnabledTasks(cfg, args)
    /\ auto' = AutoMode(args)
    /\ stop_on_unchanged' = StopOnUnchanged(args)
    /\ max_pages' = args.max_pages
    /\ raw_jsonl' = args.raw_jsonl
    /\ pc' = "for"
    /\ ti' = 1
    /\ total_new' = 0
    /\ UNCHANGED <<upstream, store, run_no, existing_ids, rows_to_append, page,
                   fetched_pages, new_rows_this_page, requested, last_call, stop,
                   seen_ids, last_items, last_dups, args, raw, store_before, call, dash>>

\* (variant: the page counter starts at 2)
BeginTaskAtSecondPage ==
    /\ pc = "for"
    /\ ti <= Len(tasks)
    /\ LET made == ensure_csv(store, csv_path)
       IN  /\ store' = made
           /\ existing_ids' = load_existing_ids(made, csv_path)
    /\ rows_to_append' = <<>>
    /\ page' = 2
    /\ fetched_pages' = 0
    /\ requested' = <<>>
    /\ seen_ids' = {}
    /\ last_items' = 0
    /\ last_dups' = 0
    /\ stop' = "none"
    /\ store_before' = store
    /\ pc' = "while"
    /\ UNCHANGED <<params, dash, call, raw, ti, new_rows_this_page, total_new, last_call>>

\* for t in tasks: ... up to the first test of the while loop
BeginTask ==
    /\ pc = "for"
    /\ ti <= Len(tasks)
    /\ LET made == ensure_csv(store, csv_path)
       IN  /\ store' = made
           /\ existing_ids' = load_existing_ids(made, csv_path)
    /\ rows_to_append' = <<>>
    /\ page' = 1
    /\ fetched_pages' = 0
    /\ requested' = <<>>
    /\ seen_ids' = {}
    /\ last_items' = 0
    /\ last_dups' = 0
    /\ stop' = "none"
    /\ store_before' = store
    /\ pc' = "while"
    /\ UNCHANGED <<params, dash, call, raw, ti, new_rows_this_page, total_new, last_call>>

BreakFixed ==
    /\ pc = "while"
    /\ FixedDone(page, tasks[ti].pages)
    /\ stop' = "fixed"
    /\ pc' = "append"
    /\ UNCHANGED <<params, dash, call, raw, store_before, store, ti, existing_ids, rows_to_append, page, fetched_pages,
                   new_rows_this_page, total_new, requested, last_call, seen_ids, last_items, last_dups>>

BreakCap ==
    /\ pc = "while"
    /\ ~FixedDone(page, tasks[ti].pages)
    /\ CapReached(fetched_pages)
    /\ stop' = "cap"
    /\ pc' = "append"
    /\ UNCHANGED <<params, dash, call, raw, store_before, store, ti, existing_ids, rows_to_append, page, fetched_pages,
                   new_rows_this_page, total_new, requested, last_call, seen_ids, last_items, last_dups>>

\* the loop passes both tests and calls fetch_page
Fetching ==
    /\ pc = "while"
    /\ ~FixedDone(page, tasks[ti].pages)
    /\ ~CapReached(fetched_pages)

\* fetch_page raises: the except branch is entered
FetchFail ==
    /\ Fetching
    /\ \E r \in Upstream(build_url(page, tasks[ti])) : ~r.ok
    /\ requested' = Append(requested, page)
    /\ last_call' = "fetch"
    /\ last_items' = NoBody
    /\ last_dups' = 0
    /\ pc' = "except"
    /\ UNCHANGED <<params, dash, call, raw, store_before, store, ti, existing_ids, rows_to_append, page, fetched_pages,
                   new_rows_this_page, total_new, stop, seen_ids>>

\* (variant: the except branch ends in `continue` after skipping the page)
SleepAfterFailContinue ==
    /\ pc = "except"
    /\ last_call' = "sleep"
    /\ page' = page + 1
    /\ pc' = "while"
    /\ UNCHANGED <<params, dash, call, raw, store_before, store, ti, existing_ids, rows_to_append, fetched_pages,
                   new_rows_this_page, total_new, requested, stop, seen_ids, last_items,
                   last_dups>>

\* except: time.sleep(sleep_sec); break
SleepAfterFail ==
    /\ pc = "except"
    /\ last_call' = "sleep"
    /\ stop' = "error"
    /\ pc' = "append"
    /\ UNCHANGED <<params, dash, call, raw, store_before, store, ti, existing_ids, rows_to_append, page, fetched_pages,
                   new_rows_this_page, total_new, requested, seen_ids, last_items, last_dups>>

\* a body with no items: break
FetchEmpty ==
    /\ Fetching
    /\ \E r \in Upstream(build_url(page, tasks[ti])) : r.ok /\ NoItems(ExtractItems(r.body))
    /\ requested' = Append(requested, page)
    /\ last_call' = "fetch"
    /\ last_items' = 0
    /\ last_dups' = 0
    /\ stop' = "empty"
    /\ pc' = "append"
    /\ UNCHANGED <<params, dash, call, raw, store_before, store, ti, existing_ids, rows_to_append, page, fetched_pages,
                   new_rows_this_page, total_new, seen_ids>>

\* (variant: the records accepted from a page are appended to the store as
\* soon as the page has been processed)
FetchItemsFlushing ==
    /\ Fetching
    /\ \E r \in Upstream(build_url(page, tasks[ti])) :
          /\ r.ok
          /\ ~NoItems(ExtractItems(r.body))
          /\ LET items == ExtractItems(r.body).items
                 got == Collect(items, existing_ids, rows_to_append)
             IN  /\ existing_ids' = got.ids
                 /\ rows_to_append' = got.rows
                 /\ store' = append_rows(store, csv_path,
                                SubSeq(got.rows, Len(rows_to_append) + 1, Len(got.rows)))
                 /\ new_rows_this_page' = Len(got.rows) - Len(rows_to_append)
                 /\ seen_ids' = seen_ids \cup {PyInt(items[i].itemId).v :
                                     i \in {j \in 1..Len(items) : PyInt(items[j].itemId).ok}}
                 /\ last_items' = Len(items)
                 /\ last_dups' = Known(items, existing_ids)
                 /\ raw' = IF raw_jsonl
                           THEN [raw EXCEPT ![csv_path] = @ \o raw_lines(items, existing_ids)]
                           ELSE raw
    /\ requested' = Append(requested, page)
    /\ last_call' = "fetch"
    /\ fetched_pages' = fetched_pages + 1
    /\ page' = page + 1
    /\ pc' = "sleep"
    /\ UNCHANGED <<params, dash, call, store_before, ti, total_new, stop>>

\* a page with items: dedup, normalise, count, up to the pacing sleep
FetchItems ==
    /\ Fetching
    /\ \E r \in Upstream(build_url(page, tasks[ti])) :
          /\ r.ok
          /\ ~NoItems(ExtractItems(r.body))
          /\ LET items == ExtractItems(r.body).items
                 got == Collect(items, existing_ids, rows_to_append)
             IN  /\ existing_ids' = got.ids
                 /\ rows_to_append' = got.rows
                 /\ new_rows_this_page' = Len(got.rows) - Len(rows_to_append)
                 /\ seen_ids' = seen_ids \cup {PyInt(items[i].itemId).v :
                                     i \in {j \in 1..Len(items) : PyInt(items[j].itemId).ok}}
                 /\ last_items' = Len(items)
                 /\ last_dups' = Known(items, existing_ids)
                 /\ raw' = IF raw_jsonl
                           THEN [raw EXCEPT ![csv_path] = @ \o raw_lines(items, existing_ids)]
                           ELSE raw
    /\ requested' = Append(requested, page)
    /\ last_call' = "fetch"
    /\ fetched_pages' = fetched_pages + 1
    /\ page' = page + 1
    /\ pc' = "sleep"
    /\ UNCHANGED <<params, dash, call, store_before, store, ti, total_new, stop>>

\* (variant: the pacing sleep after a page is left out)
SleepAfterPageSkipped ==
    /\ pc = "sleep"
    /\ IF UnchangedStop(new_rows_this_page)
       THEN stop' = "unchanged" /\ pc' = "append"
       ELSE stop' = stop /\ pc' = "while"
    /\ UNCHANGED <<params, dash, call, raw, store_before, store, ti, existing_ids, rows_to_append, page, fetched_pages,
                   new_rows_this_page, total_new, requested, last_call, seen_ids,
                   last_items, last_dups>>

\* time.sleep(sleep_sec), then the unchanged-page test
SleepAfterPage ==
    /\ pc = "sleep"
    /\ last_call' = "sleep"
    /\ IF UnchangedStop(new_rows_this_page)
       THEN stop' = "unchanged" /\ pc' = "append"
       ELSE stop' = stop /\ pc' = "while"
    /\ UNCHANGED <<params, dash, call, raw, store_before, store, ti, existing_ids, rows_to_append, page, fetched_pages,
                   new_rows_this_page, total_new, requested, seen_ids, last_items, last_dups>>

\* (variant: the batch is dropped when the loop was ended by a failed fetch)
AppendTaskUnlessFailed ==
    /\ pc = "append"
    /\ IF rows_to_append # <<>> /\ stop # "error"
       THEN /\ store' = append_rows(store, csv_path, rows_to_append)
            /\ total_new' = total_new + Len(rows_to_append)
       ELSE UNCHANGED <<store, total_new>>
    /\ ti' = ti + 1
    /\ pc' = "for"
    /\ UNCHANGED <<params, dash, call, raw, store_before, existing_ids, rows_to_append, page, fetched_pages,
                   new_rows_this_page, requested, last_call, stop, seen_ids, last_items, last_dups>>

\* after the loop: append the batch when it is not empty
AppendTask ==
    /\ pc = "append"
    /\ IF rows_to_append # <<>>
       THEN /\ store' = append_rows(store, csv_path, rows_to_append)
            /\ total_new' = total_new + Len(rows_to_append)
       ELSE UNCHANGED <<store, total_new>>
    /\ ti' = ti + 1
    /\ pc' = "for"
    /\ UNCHANGED <<params, dash, call, raw, store_before, existing_ids, rows_to_append, page, fetched_pages,
                   new_rows_this_page, requested, last_call, stop, seen_ids, last_items, last_dups>>

\* the task list is exhausted: "Done. New rows total"
Finish ==
    /\ pc = "for"
    /\ ti > Len(tasks)
    /\ pc' = "done"
    /\ UNCHANGED <<params, dash, call, raw, store_before, store, ti, existing_ids, rows_to_append, page, fetched_pages,
                   new_rows_this_page, total_new, requested, last_call, stop, seen_ids,
                   last_items, last_dups>>

\* the same command line is run again on the same out-dir and configuration
Rerun ==
    /\ pc = "done"
    /\ run_no < MaxRuns
    /\ run_no' = run_no + 1
    /\ pc' = "for"
    /\ ti' = 1
    /\ total_new' = 0
    /\ UNCHANGED <<tasks, auto, stop_on_unchanged, max_pages, upstream, store, existing_ids,
                   rows_to_append, page, fetched_pages, new_rows_this_page, requested,
                   last_call, stop, seen_ids, last_items, last_dups, args, raw_jsonl, raw,
                   store_before, call, dash>>

(* --------------------------- store I/O errors -------------------------- *)
\* ensure_csv or load_existing_ids raises (the file cannot be created or
\* read): nothing in run() catches it, the exception leaves run() and main()
StoreFailAtStart ==
    /\ pc = "for"
    /\ ti <= Len(tasks)
    /\ stop' = "io"
    /\ pc' = "raised"
    /\ UNCHANGED <<params, dash, call, raw, store_before, store, ti, existing_ids, rows_to_append,
                   page, fetched_pages, new_rows_this_page, total_new, requested, last_call,
                   seen_ids, last_items, last_dups>>

\* append_rows raises after it has written some of the rows, possibly none
StoreFailAtAppend ==
    /\ pc = "append"
    /\ rows_to_append # <<>>
    /\ \E n \in 0..(Len(rows_to_append) - 1) :
          store' = append_rows(store, csv_path, SubSeq(rows_to_append, 1, n))
    /\ stop' = "io"
    /\ pc' = "raised"
    /\ UNCHANGED <<params, dash, call, raw, store_before, ti, existing_ids, rows_to_append,
                   page, fetched_pages, new_rows_this_page, total_new, requested, last_call,
                   seen_ids, last_items, last_dups>>

(* ------------------------- calls of the helpers ------------------------ *)
\* A helper is called once, on its own, from the state before main().
crawl == <<tasks, auto, stop_on_unchanged, max_pages, upstream, store, run_no, pc, ti,
           existing_ids, rows_to_append, page, fetched_pages, new_rows_this_page,
           total_new, requested, last_call, stop, seen_ids, last_items, last_dups,
           args, raw_jsonl, raw, store_before>>

\* the extraction of run() applied to a response body
CallExtractItems ==
    /\ call = NoCall
    /\ \E data \in Bodies \cup ProbeBodies :
          call' = [fn |-> "ExtractItems", arg |-> data, out |-> ExtractItems(data)]
    /\ UNCHANGED <<crawl, dash>>

CallNormalizeItem ==
    /\ call = NoCall
    /\ \E r \in NormRecords :
          call' = [fn |-> "normalize_item", arg |-> r, out |-> normalize_item(r)]
    /\ UNCHANGED <<crawl, dash>>

CallParsePrice ==
    /\ call = NoCall
    /\ \E v \in NumberInputs :
          call' = [fn |-> "parse_price_to_ntd", arg |-> v, out |-> parse_price_to_ntd(v)]
    /\ UNCHANGED <<crawl, dash>>

CallParseMileage ==
    /\ call = NoCall
    /\ \E v \in NumberInputs :
          call' = [fn |-> "parse_mileage_to_km", arg |-> v, out |-> parse_mileage_to_km(v)]
    /\ UNCHANGED <<crawl, dash>>

CallParseYear ==
    /\ call = NoCall
    /\ \E a \in MakeYears, b \in YearTypes :
          call' = [fn |-> "parse_year", arg |-> <<a, b>>, out |-> parse_year(<<a, b>>)]
    /\ UNCHANGED <<crawl, dash>>

\* the item loop of run() applied to a page and a ledger, on an empty batch
CallCollect ==
    /\ call = NoCall
    /\ \E items \in FieldPages, ids \in Ledgers :
          call' = [fn |-> "Collect", arg |-> [items |-> items, ids |-> ids],
                   out |-> Collect(items, ids, <<>>)]
    /\ UNCHANGED <<crawl, dash>>

\* the file names of two configuration entries
CallCsvFilename ==
    /\ call = NoCall
    /\ \E t1, t2 \in PartitionTasks :
          call' = [fn |-> "csv_filename", arg |-> <<t1, t2>>,
                   out |-> <<csv_filename(t1), csv_filename(t2)>>]
    /\ UNCHANGED <<crawl, dash>>

\* one invocation of the program
Next ==
    \/ Main
    \/ BeginTask
    \/ BreakFixed
    \/ BreakCap
    \/ FetchFail
    \/ SleepAfterFail
    \/ FetchEmpty
    \/ FetchItems
    \/ SleepAfterPage
    \/ AppendTask
    \/ Finish

Spec == Init /\ [][Next]_vars

\* repeated invocations against one stable dataset
NextRerun == Next \/ Rerun

SpecRerun == InitRerun /\ [][NextRerun]_vars

\* one invocation with --raw-jsonl against one stable dataset
InitRaw == Idle /\ upstream \in RawDatasets /\ args \in RawArgSets

SpecRaw == InitRaw /\ [][Next]_vars

\* one invocation on an out-dir whose files may fail to be created, read or
\* written
NextIO ==
    \/ Next
    \/ StoreFailAtStart
    \/ StoreFailAtAppend

SpecIO == Init /\ [][NextIO]_vars

\* the helper functions called on their own
NoOptions == [pages |-> NonePages, auto |-> FALSE, max_pages |-> DefaultMaxPages,
              no_stop_on_unchanged |-> FALSE, raw_jsonl |-> FALSE]

InitCalls == Idle /\ upstream = Volatile /\ args = NoOptions

NextCalls ==
    \/ CallExtractItems
    \/ CallNormalizeItem
    \/ CallParsePrice
    \/ CallParseMileage
    \/ CallParseYear
    \/ CallCollect
    \/ CallCsvFilename

SpecCalls == InitCalls /\ [][NextCalls]_vars

\* the page loop keeps running: fetch_page returns or raises within its
\* timeout and time.sleep returns
\* one invocation on a configuration with brands and kinds: no option, or
\* --auto --max-pages 1
KindArgSets == {a \in ArgSets : /\ a.pages = NonePages
                                /\ ~a.no_stop_on_unchanged
                                /\ a.max_pages \in {1, DefaultMaxPages}}

InitKinds == Idle /\ upstream = Volatile /\ args \in KindArgSets

NextKinds ==
    \/ MainKinds
    \/ BeginTask
    \/ BreakFixed
    \/ BreakCap
    \/ FetchFail
    \/ SleepAfterFail
    \/ FetchEmpty
    \/ FetchItems
    \/ SleepAfterPage
    \/ AppendTask
    \/ Finish

SpecKinds == InitKinds /\ [][NextKinds]_vars

(* ------------------------- dashboard drill-down ------------------------ *)
reset_filters ==
    /\ drill_down_filters' = <<>>
    /\ current_level' = "overview"
    /\ breadcrumb' = <<Overview>>
    /\ UNCHANGED <<crawl, call>>

add_filter(filter_type, filter_value, level_name) ==
    /\ drill_down_filters' = DictSet(drill_down_filters, filter_type, filter_value)
    /\ current_level' = filter_type
    /\ breadcrumb' = IF \E i \in 1..Len(breadcrumb) : breadcrumb[i] = level_name
                     THEN breadcrumb
                     ELSE Append(breadcrumb, level_name)
    /\ UNCHANGED <<crawl, call>>

remove_filter(filter_type) ==
    LET left == DictDel(drill_down_filters, filter_type)
    IN  /\ drill_down_filters' = left
        /\ breadcrumb' = IF Len(breadcrumb) > 1
                         THEN SubSeq(breadcrumb, 1, Len(breadcrumb) - 1)
                         ELSE breadcrumb
        /\ current_level' = IF left # <<>> THEN Keys(left)[Len(left)] ELSE "overview"
        /\ UNCHANGED <<crawl, call>>

\* the drill button: add_filter with the level name built from its arguments
Drill ==
    \E filter_type \in FilterTypes, filter_value \in FilterValues :
        add_filter(filter_type, filter_value, LevelName(filter_type, filter_value))

\* the back button: remove_filter of the last key of the dict
Back ==
    /\ Len(breadcrumb) > 1
    /\ drill_down_filters # <<>>
    /\ remove_filter(Keys(drill_down_filters)[Len(drill_down_filters)])

\* the home button
Home ==
    /\ Len(breadcrumb) > 1
    /\ reset_filters

NextDash ==
    \/ Drill
    \/ Back
    \/ Home

SpecDash == InitCalls /\ [][NextDash]_vars

SpecLive == Init /\ [][Next]_vars /\ WF_vars(Next)

(* ------------------------------ properties ----------------------------- *)
InTask == pc \in {"while", "sleep", "except", "append"}

\* the step passes one more page number to fetch_page
FetchStep == Len(requested') = Len(requested) + 1

\* the pages 1..n in order
PagesUpTo(n) == [i \in 1..n |-> i]

\* the CSV cells of a batch
Cells(rows) == [i \in 1..Len(rows) |-> [item_id |-> CsvCell(rows[i].item_id)]]

\* C1: a second run of the same configuration against the same dataset accepts
\* no row in any task and appends nothing.
C1_SecondRunAcceptsNothing ==
    run_no >= 2 => /\ total_new = 0
                   /\ InTask => rows_to_append = <<>>

\* C2: no partition store holds two rows with the same identifier.
C2_UniqueIdentifiers ==
    \A f \in Files : \A i, j \in 1..Len(store[f].rows) :
        store[f].rows[i].item_id = store[f].rows[j].item_id => i = j

\* C3: a fixed-mode task that starts from an empty store and whose pages
\* 1..pages all succeed with records leaves, after its append, exactly one row
\* per distinct integer identifier seen on those pages, and nothing else.
C3_FixedStoreExact ==
    [][ (pc = "append" /\ ~auto /\ stop = "fixed" /\ store[csv_path].rows = <<>>)
        => /\ requested = PagesUpTo(tasks[ti].pages)
           /\ store'[csv_path].rows = Cells(rows_to_append)
           /\ Len(store'[csv_path].rows) = Cardinality(seen_ids)
           /\ {PyInt(rows_to_append[i].item_id).v : i \in 1..Len(rows_to_append)} = seen_ids
      ]_vars

\* two pages fetched, the second with one new record and one duplicate, the
\* two rows written to the store that was empty
C3_Witness ==
    /\ pc = "for" /\ ti = 2 /\ ~auto /\ stop = "fixed"
    /\ requested = <<1, 2>>
    /\ last_items = 2 /\ last_dups = 1 /\ new_rows_this_page = 1
    /\ Len(rows_to_append) = 2
    /\ store[csv_filename(tasks[1])].rows = Cells(rows_to_append)

\* C4 as stated: in open-ended mode, when every fetch succeeds with a
\* non-empty page, the loop ends having fetched exactly the pages
\* 1..max_pages.
C4_CapFetchesExactlyN ==
    (pc = "append" /\ auto /\ last_items > 0) => requested = PagesUpTo(max_pages)

\* C4 amended: the same, when in addition no page triggers the unchanged-page
\* stop (it is disabled, or the last page contributed a new record).
C4_CapFetchesExactlyNWhenNew ==
    (pc = "append" /\ auto /\ last_items > 0
        /\ ~(stop_on_unchanged /\ new_rows_this_page = 0))
        => (stop = "cap" /\ requested = PagesUpTo(max_pages))

C4_Witness ==
    pc = "append" /\ auto /\ max_pages = 3 /\ stop = "cap" /\ requested = <<1, 2, 3>>
        /\ last_items > 0

\* C5: the number of fetches of one task never exceeds max_pages in open-ended
\* mode and the task's page count in fixed mode, and every page loop that is
\* entered is left.
C5_FetchesBounded ==
    /\ [](InTask => Len(requested) <= (IF auto THEN max_pages ELSE tasks[ti].pages))
    /\ [](pc = "while" => <>(pc = "append"))

\* a loop that used its whole budget on failures and pages
C5_Witness ==
    pc = "append" /\ stop = "error" /\ Len(requested) = 3
        /\ (IF auto THEN max_pages ELSE tasks[ti].pages) = 3

\* C6 as stated: with unchanged-stop enabled, no page is fetched after a
\* non-empty page that contributed no new record.
C6_UnchangedPageIsLast ==
    (Fetching /\ requested # <<>> /\ stop_on_unchanged)
        => (new_rows_this_page > 0 /\ last_dups < last_items)

\* C6 amended: the same in open-ended mode.
C6_UnchangedPageIsLastAuto ==
    (Fetching /\ requested # <<>> /\ auto /\ stop_on_unchanged)
        => (new_rows_this_page > 0 /\ last_dups < last_items)

\* page 2 carried only identifiers already accepted and the loop ended there,
\* one page short of the cap
C6_Witness ==
    pc = "append" /\ stop = "unchanged" /\ requested = <<1, 2>> /\ max_pages = 3
        /\ last_items > 0 /\ last_dups = last_items

\* C7 as stated: in fixed mode without a fetch failure exactly the pages
\* 1..pages are fetched, whatever the pages hold.
C7_FixedFetchesAllPages ==
    (pc = "append" /\ ~auto /\ last_items # NoBody)
        => requested = PagesUpTo(tasks[ti].pages)

\* C7 amended: in fixed mode without a fetch failure the loop fetches exactly
\* the pages 1..pages when each of them yields a record (also when a page adds
\* no new row), and ends at the first page that yields none.
C7_FixedFetchesAllNonEmptyPages ==
    (pc = "append" /\ ~auto /\ last_items # NoBody)
        => /\ last_items > 0 => (stop = "fixed" /\ requested = PagesUpTo(tasks[ti].pages))
           /\ last_items = 0 => (stop = "empty" /\ Len(requested) <= tasks[ti].pages
                                    /\ requested = PagesUpTo(page))

\* all three pages fetched although the last added no new row
C7_Witness ==
    pc = "append" /\ ~auto /\ stop = "fixed" /\ requested = <<1, 2, 3>>
        /\ stop_on_unchanged /\ new_rows_this_page = 0 /\ last_items > 0

\* C8: in open-ended mode a page that yields no record ends the page loop with
\* the batch intact; the batch is then appended to the task's store and the
\* for loop moves on to the next task.
C8_EmptyPageEndsTask ==
    [][ /\ (auto /\ FetchStep /\ last_items' = 0)
            => (pc' = "append" /\ rows_to_append' = rows_to_append)
        /\ (auto /\ pc = "append" /\ stop = "empty")
            => /\ pc' = "for" /\ ti' = ti + 1 /\ tasks' = tasks
               /\ store'[csv_path].rows = store[csv_path].rows \o Cells(rows_to_append)
      ]_vars

\* an empty second page: the record of page 1 is in the store and the second
\* task is about to start
C8_Witness ==
    /\ pc = "for" /\ auto /\ stop = "empty" /\ ti = 2 /\ Len(tasks) = 2
    /\ requested = <<1, 2>> /\ last_items = 0
    /\ rows_to_append # <<>>
    /\ store[csv_filename(tasks[1])].rows = Cells(rows_to_append)

\* C9: when fetch_page raises, the task fetches no further page, the run goes
\* on to the append of that task and then to the next task, whose page loop
\* can start.
C9_FetchFailureEndsTaskOnly ==
    /\ [][ /\ (FetchStep /\ last_items' = NoBody) => pc' = "except"
           /\ pc = "except" => (pc' = "append" /\ stop' = "error" /\ requested' = requested)
           /\ (pc = "append" /\ stop = "error")
                 => (pc' = "for" /\ ti' = ti + 1 /\ tasks' = tasks)
           /\ (pc = "for" /\ ti <= Len(tasks)) => (pc' = "while" /\ ti' = ti)
         ]_vars
    /\ []((pc = "for" /\ ti <= Len(tasks)) => ENABLED BeginTask)

\* the first of two tasks failed on its second page and the second task is
\* about to start
C9_Witness ==
    /\ pc = "for" /\ stop = "error" /\ ti = 2 /\ Len(tasks) = 2
    /\ requested = <<1, 2>> /\ last_items = NoBody

\* C10: a page fetch that is not the first of its task is preceded by a pacing
\* sleep, and a loop ended by a failed fetch has slept after the failure.
C10_PacingBetweenFetches ==
    [][ /\ (FetchStep /\ requested # <<>>) => last_call = "sleep"
        /\ (pc' = "append" /\ stop' = "error") => last_call' = "sleep"
      ]_vars

\* a failure on the third page of a task
C10_Witness ==
    pc = "append" /\ stop = "error" /\ requested = <<1, 2, 3>> /\ last_call = "sleep"

\* the four envelopes of a record list
FourShapes(l) == { JDict([data |-> JDict([items |-> JList(l)])]),
                   JDict([items |-> JList(l)]),
                   JDict([list |-> JList(l)]),
                   JList(l) }

\* C11: the bodies {"data": {"items": L}}, {"items": L}, {"list": L} and the
\* bare list L all extract exactly L, and {"data": {"items": []}} extracts an
\* empty list, on which the page loop breaks as on a page without records.
C11_EnvelopesExtractTheList ==
    call.fn = "ExtractItems"
        => /\ \A l \in ItemLists :
                 call.arg \in FourShapes(l) => call.out = [found |-> TRUE, items |-> l]
           /\ call.arg = JDict([data |-> JDict([items |-> JList(<<>>)])])
                 => (call.out.found /\ call.out.items = <<>> /\ NoItems(call.out))

\* a list of two records extracted from inside the data object
C11_Witness ==
    /\ call.fn = "ExtractItems"
    /\ \E l \in ItemLists :
          /\ Len(l) = 2
          /\ call.arg = JDict([data |-> JDict([items |-> JList(l)])])
          /\ call.out.items = l

\* the records of page p of a stable dataset
PageRecords(p) == ExtractItems((IF p = 1 THEN upstream.first ELSE upstream.rest).body).items

C13_NoWriteWithoutNewRecords ==
    [][ (pc = "append" /\ rows_to_append = <<>>) => store' = store_before ]_vars

\* C13 amended: after a task that collected no new record the rows of every
\* store are as they were when the task started; the only change is that the
\* task's own store file, if it did not exist, now exists with its header.
C13_NoRowWithoutNewRecords ==
    [][ (pc = "append" /\ rows_to_append = <<>>)
        => \A f \in Files :
              /\ store'[f].rows = store_before[f].rows
              /\ store'[f].exists # store_before[f].exists
                    => (f = csv_path /\ store'[f].exists /\ store'[f].rows = <<>>)
      ]_vars

\* the second task found only records its store already held: the store is
\* as the first task left it
C13_Witness ==
    /\ pc = "for" /\ ti = 3 /\ rows_to_append = <<>>
    /\ last_items > 0 /\ last_dups = last_items
    /\ store = store_before
    /\ store[csv_filename(tasks[2])].rows # <<>>

\* C14: a run that a store I/O error has ended has no enabled task left
\* after the one whose store failed.
C14_StoreFailureLosesOneBatch ==
    pc = "raised" => ti = Len(tasks)

\* C19: with --pages on the command line every task runs in fixed mode with
\* that page count, with or without --auto: the loop is never ended by the
\* cap or by an unchanged page, and when no page fails or is empty it ends
\* after exactly the pages 1..pages.
C19_PagesOverridesAndDisablesAuto ==
    (pc # "idle" /\ args.pages # NonePages)
        => /\ ~auto
           /\ \A i \in 1..Len(tasks) : tasks[i].pages = args.pages
           /\ stop \notin {"cap", "unchanged"}
           /\ InTask => Len(requested) <= args.pages
           /\ (pc = "append" /\ stop = "fixed") => requested = PagesUpTo(args.pages)

\* --pages 2 --auto: both pages fetched although the second added no row,
\* and not the three pages of the configuration
C19_Witness ==
    /\ pc = "append" /\ args.auto /\ args.pages = 2 /\ args.pages # DefaultPages
    /\ stop = "fixed" /\ requested = <<1, 2>>
    /\ last_items > 0 /\ new_rows_this_page = 0

\* C15: normalize_item returns a canonical record for every raw record; no
\* exception leaves it.
C15_NormalizeNeverRaises ==
    call.fn = "normalize_item"
        => /\ ~IsRaised(call.out)
           /\ DOMAIN call.out = {"item_id", "year", "mileage_km", "price_ntd", "title"}

\* the position of the first myriad marker of a text that has one
FirstMarker(s) == CHOOSE i \in 1..Len(s) : s[i] = Wan /\ \A h \in 1..(i - 1) : s[h] # Wan

\* the longest run of digits and dots that ends at position n of s
RECURSIVE RunBefore(_, _)
RunBefore(s, n) == IF n >= 1 /\ IsTokenChar(s[n]) THEN RunBefore(s, n - 1) \o <<s[n]>>
                   ELSE <<>>

\* C16: with the thousands separators removed, a text in which a number
\* precedes the myriad marker yields that number times 10,000 rounded to the
\* nearest integer; a text without the marker yields its first numeric token
\* truncated to an integer, and absent when it has no numeric token.
C16_PriceByMarkerOrToken ==
    (call.fn = "parse_price_to_ntd" /\ call.arg.k = "str")
        => LET s == Remove(call.arg.s, ",")
           IN  IF Contains(s, Wan)
               THEN LET number == RunBefore(s, FirstMarker(s) - 1)
                    IN  IsDecimal(number) => call.out = IntVal(RoundMyriad(PyFloat(number)))
               ELSE LET token == FirstToken(s)
                    IN  /\ token = <<>> => call.out = None
                        /\ IsDecimal(token)
                              => call.out = IntVal(PyFloat(token).mant \div Pow10(PyFloat(token).frac))

\* C17 as stated: parse_mileage_to_km(s) is parse_price_to_ntd of s with the
\* unit suffixes removed.
C17_MileageIsPriceWithoutUnits ==
    (call.fn = "parse_mileage_to_km" /\ call.arg.k = "str")
        => call.out = parse_price_to_ntd(Str(RemoveUnits(call.arg.s)))

\* C17 amended: parse_mileage_to_km(s) is parse_price_to_ntd of the text
\* obtained from s by removing the thousands separators first and the unit
\* suffixes after; "123,456 KM" gives 123456.
C17_MileageIsPriceWithoutSeparatorsAndUnits ==
    (call.fn = "parse_mileage_to_km" /\ call.arg.k = "str")
        => /\ call.out = parse_price_to_ntd(Str(RemoveUnits(Remove(Strip(call.arg.s), ","))))
           /\ call.arg.s = <<"1", "2", "3", ",", "4", "5", "6", " ", "K", "M">>
                 => call.out = IntVal(123456)

\* a myriad mileage with a unit suffix behind a thousands separator
C17_Witness ==
    /\ call.fn = "parse_mileage_to_km"
    /\ call.arg = Str(<<"1", ",", Wan, "K", "M">>)
    /\ call.out = IntVal(10000)

\* C18: parse_year returns the 19xx / 20xx substring that starts first in
\* the first of its values that contains one, and absent when no value
\* contains one; no exception leaves it.
C18_FirstYearOfFirstField ==
    call.fn = "parse_year"
        => LET values == call.arg
               HasYear(v) == v # None /\ \E i \in 1..Len(PyStr(v)) : YearAt(PyStr(v), i)
           IN  /\ ~IsRaised(call.out)
               /\ (\A j \in 1..Len(values) : ~HasYear(values[j])) => call.out = None
               /\ \A j \in 1..Len(values) :
                     (HasYear(values[j]) /\ \A h \in 1..(j - 1) : ~HasYear(values[h]))
                        => \E i \in 1..Len(PyStr(values[j])) :
                              /\ YearAt(PyStr(values[j]), i)
                              /\ \A h \in 1..(i - 1) : ~YearAt(PyStr(values[j]), h)
                              /\ call.out = IntVal(DigitsValue(SubSeq(PyStr(values[j]), i, i + 3)))

\* "01920" and "x2001": the year comes from the first value, and from its
\* second position
C18_Witness ==
    /\ call.fn = "parse_year"
    /\ call.arg = <<Str(<<"0", "1", "9", "2", "0">>), Str(<<"x", "2", "0", "0", "1">>)>>
    /\ call.out = IntVal(1920)

\* the case-folded (brand, kind) of a configuration entry
Identity(t) == <<TaskBrand(t), TaskKind(t)>>

\* C20: two tasks use the same store file exactly when their case-folded
\* (brand, kind) identities are equal, and a task without brand and kind uses
\* the file "general".
C20_FileIsFunctionOfIdentity ==
    call.fn = "csv_filename"
        => /\ (Identity(call.arg[1]) = Identity(call.arg[2])) <=> (call.out[1] = call.out[2])
           /\ Identity(call.arg[1]) = <<<<>>, <<>>>> => call.out[1] = <<"general", ".csv">>

\* the list l is held by the first of the keys under which d holds a list
FoundBy(d, keys, l) ==
    \E i \in 1..Len(keys) :
        /\ keys[i] \in DOMAIN d /\ d[keys[i]].t = "list" /\ d[keys[i]].l = l
        /\ \A h \in 1..(i - 1) : ~(keys[h] \in DOMAIN d /\ d[keys[h]].t = "list")

AnyList(d, keys) == \E i \in 1..Len(keys) : keys[i] \in DOMAIN d /\ d[keys[i]].t = "list"

\* out is the result of the first matching path: the mapping under "data"
\* searched with the keys `nested`, then the body searched with the keys
\* `top`, then the body itself when it is a list
FirstPath(data, nested, top, out) ==
    IF data.t = "dict"
    THEN IF "data" \in DOMAIN data.d /\ data.d["data"].t = "dict"
            /\ AnyList(data.d["data"].d, nested)
         THEN out.found /\ FoundBy(data.d["data"].d, nested, out.items)
         ELSE IF AnyList(data.d, top) THEN out.found /\ FoundBy(data.d, top, out.items)
         ELSE ~out.found
    ELSE IF data.t = "list" THEN out.found /\ out.items = data.l
    ELSE ~out.found

\* C21 as stated: the mapping under "data" and then the top-level mapping are
\* searched with the same keys in the same order.
C21_SameKeysOnBothPaths ==
    call.fn = "ExtractItems"
        => FirstPath(call.arg, <<"items", "list", "results", "listings">>,
                     <<"items", "list", "results", "listings">>, call.out)

\* C21 amended: the top-level mapping is searched with the keys items, list,
\* data, results, listings in this order.
C21_DataAmongTopKeys ==
    call.fn = "ExtractItems"
        => FirstPath(call.arg, <<"items", "list", "results", "listings">>,
                     <<"items", "list", "data", "results", "listings">>, call.out)

\* an empty list under data.list is returned although data.results and the
\* top-level "items" hold records
C21_Witness ==
    /\ call.fn = "ExtractItems"
    /\ call.arg.t = "dict"
    /\ DOMAIN call.arg.d = {"data", "items"}
    /\ call.arg.d["items"].t = "list" /\ call.arg.d["items"].l # <<>>
    /\ call.arg.d["data"].t = "dict"
    /\ DOMAIN call.arg.d["data"].d = {"list", "results"}
    /\ call.arg.d["data"].d["list"] = JList(<<>>)
    /\ call.arg.d["data"].d["results"].t = "list" /\ call.arg.d["data"].d["results"].l # <<>>
    /\ call.out = [found |-> TRUE, items |-> <<>>]

\* the page loop of the current task is running
InLoop == pc \in {"while", "sleep", "except"}

\* C22: no step of a task's page loop changes the out-dir, and at every point
\* of the loop the rows of the task's partition file are the rows it had when
\* the task started.
C22_StoreUntouchedDuringLoop ==
    /\ [][ InLoop => store' = store ]_vars
    /\ [](InLoop => store[csv_path].rows = store_before[csv_path].rows)

\* two pages of the second task have been processed, records are waiting in
\* the batch, and the partition file still holds the rows of the first task
C22_Witness ==
    /\ pc = "sleep" /\ requested = <<1, 2>> /\ rows_to_append # <<>>
    /\ store[csv_path].rows # <<>>
    /\ store[csv_path].rows = store_before[csv_path].rows

\* C26: the pages a task has requested are 1, 2, ..., n in this order, and a
\* page after the first is requested only when the latest fetch of the task
\* succeeded and yielded at least one record.
C26_PagesInOrderAfterNonEmptyPage ==
    /\ [](InTask => requested = PagesUpTo(Len(requested)))
    /\ [][ (FetchStep /\ requested # <<>>) => (last_items > 0 /\ pc = "while") ]_vars

\* the third page of a task has been requested after two pages with records
C26_Witness ==
    /\ requested = <<1, 2, 3>> /\ pc = "sleep" /\ last_items > 0
    /\ Len(rows_to_append) >= 2

\* C27: a failed fetch and the except branch leave the batch collected from
\* the earlier pages as it is, and the step after a loop ended by a failure
\* appends one row per record of that batch to the partition file.
C27_FailureKeepsEarlierPages ==
    [][ /\ (FetchStep /\ last_items' = NoBody) => rows_to_append' = rows_to_append
        /\ pc = "except" => (rows_to_append' = rows_to_append /\ pc' = "append")
        /\ (pc = "append" /\ stop = "error")
              => store'[csv_path].rows = store[csv_path].rows \o Cells(rows_to_append)
      ]_vars

\* the third page of a task failed and the records accepted from the first
\* two pages are in the partition file
C27_Witness ==
    /\ pc = "for" /\ ti = 2 /\ stop = "error" /\ requested = <<1, 2, 3>>
    /\ Len(rows_to_append) = 2
    /\ store[csv_filename(tasks[1])].rows = Cells(rows_to_append)

\* C29: the first page fetch of a task that follows an earlier page fetch of
\* the same run is preceded by a pacing sleep: a sleep, not a fetch, is the
\* latest of the two kinds of call when the page is requested.
C29_PacingAcrossTasks ==
    [][ (FetchStep /\ requested = <<>> /\ last_call # "none") => last_call = "sleep" ]_vars

\* C28: once a task has appended its batch, every identifier of its ledger
\* (the identifiers read at task start and those accepted since) is read back
\* from its partition file by load_existing_ids.
C28_LedgerRoundTrip ==
    (pc \in {"for", "done"} /\ ti > 1)
        => existing_ids \subseteq load_existing_ids(store, csv_filename(tasks[ti - 1]))

\* C24: in every canonical record normalize_item returns, price_ntd is absent
\* or an integer above 0 and mileage_km is absent or an integer of at least 0.
C24_PricePositiveMileageNonNegative ==
    (call.fn = "normalize_item" /\ ~IsRaised(call.out))
        => /\ \/ call.out.price_ntd = None
              \/ (call.out.price_ntd.k = "int" /\ call.out.price_ntd.n > 0)
           /\ \/ call.out.mileage_km = None
              \/ (call.out.mileage_km.k = "int" /\ call.out.mileage_km.n >= 0)

\* the records of a page whose identifier converts to an integer that is not
\* in the ledger when the record is reached
RECURSIVE Kept(_, _)
Kept(items, ids) ==
    IF items = <<>> THEN <<>>
    ELSE LET id == PyInt(Head(items).itemId)
         IN  IF ~id.ok \/ id.v \in ids THEN Kept(Tail(items), ids)
             ELSE <<Head(items)>> \o Kept(Tail(items), ids \cup {id.v})

\* the field is absent or a text without a digit
Unparseable(v) == v = None \/ v = Str(<<"x">>)

\* C23: the item loop ends with a batch that holds one row for each record
\* whose identifier converts to an integer not yet in the ledger, in page
\* order, and no other row; in the row of a record whose year, price or
\* mileage is unparseable that column is absent.
C23_LeftOutIffBadOrKnownId ==
    call.fn = "Collect"
        => /\ ~IsRaised(call.out)
           /\ LET kept == Kept(call.arg.items, call.arg.ids)
                  rows == call.out.rows
              IN  /\ Len(rows) = Len(kept)
                  /\ \A i \in 1..Len(kept) :
                        /\ rows[i].item_id = kept[i].itemId
                        /\ Unparseable(kept[i].price) => rows[i].price_ntd = None
                        /\ Unparseable(kept[i].mileage) => rows[i].mileage_km = None
                        /\ Unparseable(kept[i].makeYear) => rows[i].year = None

\* C25: on an out-dir that was empty when the run started, a task whose
\* (brand, kind) identity differs from the identity of every earlier task of
\* the run starts its page loop with an empty ledger, so no identifier of
\* another partition can make it reject a record.
C25_LedgerOfOwnPartitionOnly ==
    (pc = "while" /\ requested = <<>>
        /\ \A h \in 1..(ti - 1) : Identity(tasks[h]) # Identity(tasks[ti]))
        => existing_ids = {}

====
